---------------------------- MODULE Spec2Model ----------------------------
(***************************************************************************)
(* A model of gitemails.py: the token rotator, the paginated fetcher, the  *)
(* repository listers, the commit walker, the recursive expander and main. *)
(*                                                                         *)
(* Python strings are sequences of one-character strings, so that lower()  *)
(* and the substring test ('noreply' in email) are computed, not assumed.  *)
(* JSON null is None; an absent key is Missing.                            *)
(***************************************************************************)
EXTENDS Naturals, Sequences, FiniteSets

(* ------------------------------ bounds -------------------------------- *)

\* longest token list given on the command line
MaxTokens == 3
\* largest --depth given on the command line
MaxDepth == 1
\* the server never serves more pages than this for one listing
MaxPages == 2
\* the server never puts more items than this on one page
MaxItems == 2
\* requests.get calls of one run
MaxRequests == 5
\* commits the server serves in one run, over all commit listings
MaxCommits == 2
\* answers other than 200 that the server gives in one run
MaxFailures == 2

(* --------------------------- python values ---------------------------- *)

\* JSON null, and an absent key; neither is a string (IsStr)
None == <<"None">>
Missing == <<"Missing">>
IsStr(x) == x \notin {None, Missing}

\* str.lower() on one character
LowerChar(c) ==
    CASE c = "B" -> "b"
      [] c = "E" -> "e"
      [] c = "N" -> "n"
      [] c = "F" -> "f"
      [] OTHER -> c

\* str.lower()
lower(s) == [i \in 1..Len(s) |-> LowerChar(s[i])]

\* sub in s, for two strings
Contains(sub, s) ==
    \E i \in 0..(Len(s) - Len(sub)) : SubSeq(s, i + 1, i + Len(sub)) = sub

noreply == <<"n", "o", "r", "e", "p", "l", "y">>
NotFound == <<"N", "o", "t", " ", "F", "o", "u", "n", "d">>

(* ------------------------- the run's inputs --------------------------- *)

bob == <<"b", "o", "b">>
Bob == <<"B", "o", "b">>
eve == <<"e", "v", "e">>

\* --user / --org values
Accounts == {bob}
\* commit emails: an ordinary one and a GitHub noreply one
mail == <<"e", "@", "x">>
noreply_mail == <<"1", "+", "e", "@">> \o noreply
\* repository names
RepoNames == {"r1", "r2"}

Tokens == <<"t1", "t2", "t3", "t4">>
TokenLists == {SubSeq(Tokens, 1, n) : n \in 0..MaxTokens}

Args == [mode : {"user", "org"}, account : Accounts, depth : 0..MaxDepth,
         tokens : TokenLists]

\* What the run meets: how many answers other than 200 the server gives, the
\* repositories an account has, and whether commits are any of Commits or the
\* plain one only.
Envs == [failures : 0..MaxFailures, repos : SUBSET RepoNames, rich : BOOLEAN]

\* The runs explored: any token list against a failing server, any mode and
\* depth with two repositories, and a plain run over every kind of commit.
Scenarios ==
    {<<a, e>> \in Args \X Envs :
        \/ e.failures = MaxFailures /\ e.repos = {"r1"} /\ ~e.rich /\ a.depth = 0
        \/ e.failures = 0 /\ e.repos = RepoNames /\ ~e.rich /\ a.tokens = <<>>
        \/ /\ e.failures = 0 /\ e.repos = {"r1"} /\ e.rich
           /\ a.tokens = <<>> /\ a.mode = "user" /\ a.depth = 0}

(* ------------------------- the token rotator -------------------------- *)

\* token_generator(token_list): a generator about to yield token_list[1]
token_generator(token_list) == [token_list |-> token_list, pos |-> 1]

\* a generator made anew for every request
FirstToken(g) == g.token_list[1]

\* the token the next call of next(token_gen) returns
NextToken(g) == g.token_list[g.pos]

\* a rotator that restarts one token early
AdvanceSkipLast(g) ==
    [g EXCEPT !.pos = IF g.pos + 1 >= Len(g.token_list) THEN 1 ELSE g.pos + 1]

\* the generator after that call: the for loop moves on, the while loop restarts it
Advance(g) ==
    [g EXCEPT !.pos = IF g.pos = Len(g.token_list) THEN 1 ELSE g.pos + 1]

\* token_gen = None
NoGen == [token_list |-> <<>>, pos |-> 0]

(* ----------------------------- the server ----------------------------- *)

\* a header that the response does not carry
Absent == "absent"

\* no response received yet
NoResponse == [status |-> 0, reset |-> FALSE, remaining |-> Absent,
               retry_after |-> Absent, json |-> <<>>, next |-> FALSE]

\* sequences over S without repetition, of length at most n
RECURSIVE Lists(_, _)
Lists(S, n) ==
    IF n = 0 THEN {<<>>}
    ELSE {<<>>} \cup {<<x>> \o l : x \in S, l \in Lists(S, n - 1)}

Distinct(l) == \A i, j \in 1..Len(l) : l[i] = l[j] => i = j

Min(a, b) == IF a < b THEN a ELSE b

\* the elements of a list
Range(l) == {l[q] : q \in 1..Len(l)}

\* an item of a repository listing, as the API serves it
RepoItem(owner, n) == [name |-> n, html_url |-> <<owner, n>>]

\* the 200 answers to a GET of u: a page of a repository listing holds
\* repositories not yet listed by this listing; a page of a commit listing holds
\* the positions of its commits, whose fields are read when the walker reaches
\* them (ProcessCommit). links has "next" only when a further page exists.
OkResponses(u, names, commits_left) ==
    LET nexts == IF u.page < MaxPages THEN BOOLEAN ELSE {FALSE}
        pages == IF u.kind = "commits"
                 THEN {[i \in 1..n |-> i] : n \in 0..Min(MaxItems, commits_left)}
                 ELSE {[i \in 1..Len(l) |-> RepoItem(u.owner, l[i])] :
                          l \in {x \in Lists(names, MaxItems) : Distinct(x)}}
    IN  {[status |-> 200, reset |-> TRUE, remaining |-> "1",
          retry_after |-> Absent, json |-> p, next |-> nx] :
            p \in pages, nx \in nexts}

\* the other answers: 403 with every combination of the two rate-limit
\* headers, with a Retry-After header or without when the quota is used up, and
\* other statuses, below and above 400, sent with the quota used up
ErrorResponses ==
    LET answer(st, rs, rm, ra) ==
            [status |-> st, reset |-> rs, remaining |-> rm, retry_after |-> ra,
             json |-> <<>>, next |-> FALSE]
    IN  {answer(403, rs, rm, Absent) : rs \in BOOLEAN, rm \in {Absent, "0", "1"}}
        \cup {answer(403, TRUE, "0", "30")}
        \cup {answer(st, TRUE, "0", Absent) : st \in {204, 404, 500}}

\* a fetcher's caller that never looks for a "next" link
HasNextNever(r) == FALSE

\* 'next' in response.links
HasNext(r) == r.next

\* response.links['next']['url']
NextUrl(u) == [u EXCEPT !.page = u.page + 1]

(* ------------------------------ the state ----------------------------- *)

VARIABLES
    args,             \* the parsed command line
    env,              \* what the run meets (Envs)
    pc,               \* where the run is
    error,            \* the exception that ended the run, or "none"
    token_gen,        \* main: the token generator, or NoGen
    calls,            \* history: calls of next(token_gen) so far
    token,            \* get_api_response: token
    url,              \* get_api_response: url
    response,         \* get_api_response: response
    fetch_ret,        \* who called get_api_response: "list" or "walk"
    requests,         \* history: every requests.get of the run, with the status it got
    sleeps,           \* history: every time.sleep of the run, in seconds
    served,           \* history: the pages the server served to the running lister
    ncommits,         \* history: commits served so far
    username,         \* lister: username / orgname
    repos,            \* lister: repos
    list_ret,         \* who called the lister: "main" or "rec"
    repositories,     \* main: repositories
    initial_usernames, \* main: initial_usernames
    org_users,        \* main: org_users
    main_i,           \* main: position of the for loops over repositories
    repo,             \* walker: repo
    repo_emails,      \* walker: repo_emails
    commit_usernames, \* walker: commit_usernames
    commits,          \* walker: commits, the page being iterated
    commit_k,         \* walker: position of the for loop over commits
    walk_ret,         \* who called the walker: "org", "main" or "rec"
    walk_start,       \* history: rows in the csv file when the running walk began
    errors,           \* history: "Error processing commit" lines printed
    walk_log,         \* history: of each commit with an author login that the running
                      \* walk iterated over, the login and whether the commit carries
                      \* its author's email and name
    usernames,        \* recursive_search: usernames still to iterate
    new_usernames,    \* recursive_search: new_usernames
    current_depth,    \* recursive_search: current_depth
    rec_repositories, \* recursive_search: repositories
    rec_j,            \* recursive_search: position of the for loop over repositories
    level,            \* history: what the running call of recursive_search has done
    pass,             \* history: the running for loop over a listing of repositories
    csv,              \* the rows appended to github-data-<account>.csv by this run
    unique_combos,    \* the global unique_combos
    unique_file       \* unique-combos-<account>.csv: its rows, or NotWritten

fetchVars == <<token_gen, calls, token, url, response, fetch_ret, requests, sleeps,
               served, ncommits>>
listVars == <<username, repos, list_ret>>
mainVars == <<repositories, initial_usernames, org_users, main_i>>
walkVars == <<repo, repo_emails, commit_usernames, commits, commit_k, walk_ret, walk_start,
              errors, walk_log>>
recVars == <<usernames, new_usernames, current_depth, rec_repositories, rec_j, level>>
outVars == <<csv, unique_combos, unique_file>>
vars == <<args, env, pass, pc, error, fetchVars, listVars, mainVars, walkVars, recVars, outVars>>

NotWritten == {<<"not written">>}
NoUrl == [kind |-> "none", owner |-> <<>>, repo |-> "", page |-> 0]
NoRepo == [name |-> "", url |-> <<>>, owner |-> <<>>]

\* a for loop over the listing given, begun after the requests and the rows
\* counted; and no such loop
Pass(listing, reqs, rows) ==
    [active |-> TRUE, repos |-> listing, req0 |-> Len(reqs), row0 |-> Len(rows)]
NoPass == [active |-> FALSE, repos |-> <<>>, req0 |-> 0, row0 |-> 0]

\* the record of a call of recursive_search at depth k with the usernames given:
\* the usernames whose repositories it asked for, the repositories it was given,
\* the repositories whose walks returned, and the logins those walks returned
Level(k, given) ==
    [k |-> k, users |-> given, called |-> <<>>, repos |-> <<>>, walks |-> <<>>,
     returned |-> {}]

Init ==
    /\ \E s \in Scenarios : args = s[1] /\ env = s[2]
    /\ pc = "main"
    /\ error = "none"
    /\ token_gen = NoGen
    /\ calls = 0
    /\ token = "none"
    /\ url = NoUrl
    /\ response = NoResponse
    /\ fetch_ret = "none"
    /\ requests = <<>>
    /\ sleeps = <<>>
    /\ served = <<>>
    /\ ncommits = 0
    /\ username = <<>>
    /\ repos = <<>>
    /\ list_ret = "none"
    /\ repositories = <<>>
    /\ initial_usernames = {}
    /\ org_users = {}
    /\ main_i = 0
    /\ repo = NoRepo
    /\ repo_emails = {}
    /\ commit_usernames = <<>>
    /\ commits = <<>>
    /\ commit_k = 0
    /\ walk_ret = "none"
    /\ walk_start = 0
    /\ errors = 0
    /\ walk_log = <<>>
    /\ usernames = {}
    /\ new_usernames = {}
    /\ current_depth = 0
    /\ rec_repositories = <<>>
    /\ rec_j = 0
    /\ level = Level(0, {})
    /\ pass = NoPass
    /\ csv = <<>>
    /\ unique_combos = {}
    /\ unique_file = NotWritten

(* ------------------------- get_api_response --------------------------- *)

\* the names already listed by the running lister
Listed == UNION {{served[p].json[q].name : q \in 1..Len(served[p].json)} :
                    p \in 1..Len(served)}

\* seconds of the time.sleep calls
SleepSeconds == 60

\* an elif condition that tests for 429 instead of 403
IsRateLimited429(r) == r.status = 429 /\ r.reset /\ r.remaining = "0"

\* the elif condition, where both headers are there to read
IsRateLimited(r) == r.status = 403 /\ r.reset /\ r.remaining = "0"

\* the elif condition reads X-RateLimit-Remaining after finding X-RateLimit-Reset:
\* response.headers[...] raises KeyError when the header is absent
HeaderKeyError(r) == r.status = 403 /\ r.reset /\ r.remaining = Absent

\* an else branch that raises nothing
RaisesForStatusNever(r) == FALSE

\* response.raise_for_status() raises HTTPError for 4xx and 5xx only
RaisesForStatus(r) == 400 <= r.status /\ r.status < 600

\* the answers other than 200 among the requests made
Failures(log) == Cardinality({q \in 1..Len(log) : log[q].status # 200})

\* headers, next(token_gen), requests.get: the answer is the server's choice
Request ==
    /\ pc = "get"
    /\ Len(requests) < MaxRequests
    /\ IF token_gen # NoGen
       THEN /\ token' = NextToken(token_gen)
            /\ token_gen' = Advance(token_gen)
            /\ calls' = calls + 1
       ELSE UNCHANGED <<token, token_gen, calls>>
    /\ \E r \in OkResponses(url, env.repos \ Listed, MaxCommits - ncommits)
                  \cup (IF Failures(requests) < env.failures THEN ErrorResponses ELSE {}) :
          /\ response' = r
          /\ requests' = Append(requests,
                [url |-> url,
                 authorization |-> IF token_gen # NoGen THEN token' ELSE "none",
                 status |-> r.status])
          /\ served' = IF r.status = 200 /\ url.kind # "commits"
                       THEN Append(served, [page |-> url.page, json |-> r.json,
                                            next |-> r.next])
                       ELSE served
          /\ ncommits' = IF r.status = 200 /\ url.kind = "commits"
                         THEN ncommits + Len(r.json) ELSE ncommits
    /\ pc' = "got"
    /\ UNCHANGED <<args, env, pass, error, url, fetch_ret, sleeps, listVars, mainVars, walkVars,
                   recVars, outVars>>

\* status 200: return response
Return200 ==
    /\ pc = "got"
    /\ response.status = 200
    /\ pc' = IF fetch_ret = "list" THEN "list_page" ELSE "walk_page"
    /\ UNCHANGED <<args, env, pass, error, fetchVars, listVars, mainVars, walkVars, recVars,
                   outVars>>

\* int() of a Retry-After header
Seconds(h) == CASE h = "30" -> 30 [] OTHER -> 0

\* a back-off that takes the Retry-After header when the response has one
WaitRetryAfter(r) ==
    IF r.retry_after # Absent THEN Seconds(r.retry_after) ELSE SleepSeconds

\* the argument of time.sleep after the rate-limited response r: both branches
\* sleep the same time and neither reads a header of r
Wait(r) == SleepSeconds

\* rate limit exceeded: sleep and go round the loop again, with or without tokens
RateLimitRetry ==
    /\ pc = "got"
    /\ response.status # 200
    /\ IsRateLimited(response)
    /\ sleeps' = Append(sleeps, Wait(response))
    /\ pc' = "get"
    /\ UNCHANGED <<args, env, pass, error, token_gen, calls, token, url, response, fetch_ret,
                   requests, served, ncommits, listVars, mainVars, walkVars, recVars,
                   outVars>>

\* the elif condition itself raises: nothing catches it, the run ends
RateLimitKeyError ==
    /\ pc = "got"
    /\ response.status # 200
    /\ HeaderKeyError(response)
    /\ error' = "KeyError"
    /\ pc' = "crashed"
    /\ UNCHANGED <<args, env, pass, fetchVars, listVars, mainVars, walkVars, recVars, outVars>>

\* the else branch: raise_for_status() either raises, and the run ends, or
\* returns, and the while loop sends the request again
RaiseForStatus ==
    /\ pc = "got"
    /\ response.status # 200
    /\ ~IsRateLimited(response)
    /\ ~HeaderKeyError(response)
    /\ IF RaisesForStatus(response)
       THEN error' = "HTTPError" /\ pc' = "crashed"
       ELSE error' = error /\ pc' = "get"
    /\ UNCHANGED <<args, env, pass, fetchVars, listVars, mainVars, walkVars, recVars, outVars>>

(* -------------- get_repositories_for_user / _for_org ------------------ *)

\* the first url of a lister
ListUrl(kind, name) == [kind |-> kind, owner |-> name, repo |-> "", page |-> 1]

\* repo_data (description is read and never used)
RepoData(item, owner) == [name |-> item.name, url |-> item.html_url, owner |-> owner]

\* the for loop over one page, then the "next" link or the return
ListPage ==
    /\ pc = "list_page"
    /\ repos' = repos \o [q \in 1..Len(response.json) |->
                              RepoData(response.json[q], username)]
    /\ IF HasNext(response)
       THEN url' = NextUrl(url) /\ pc' = "get"
       ELSE url' = url /\ pc' = "list_done"
    /\ UNCHANGED <<args, env, pass, error, token_gen, calls, token, response, fetch_ret, requests,
                   sleeps, served, ncommits, username, list_ret, mainVars, walkVars,
                   recVars, outVars>>

(* ------------------- get_emails_from_github_commits ------------------- *)

\* The people who write commits: the account's owner, whose login differs from
\* the account name in case only and whose display name is his login; someone
\* else whose display name is the owner's; someone with no GitHub account (the
\* commit's "author" object is null); someone who hides his email.
People ==
    {[login |-> Bob, name |-> Bob, email |-> mail],
     [login |-> eve, name |-> Bob, email |-> mail],
     [login |-> Missing, name |-> eve, email |-> mail],
     [login |-> eve, name |-> eve, email |-> noreply_mail]}

\* the fields of a commit that the walker reads
Commit(a, c) ==
    [author_email |-> a.email, author_name |-> a.name, login |-> a.login,
     committer_email |-> c.email, committer_name |-> c.name, html_url |-> <<"ok">>]

\* the commit with one of its fields null or absent
Defect(c, f, v) == [c EXCEPT ![f] = v]

\* the commits the server serves: any author with himself or anyone who has a
\* login as committer, and the commits of one person, who has a login and shows
\* his email, with one field null or absent
Commits ==
    LET good == UNION {{Commit(a, c) :
                           c \in {q \in People : q.login # Missing} \cup {a}} :
                       a \in People}
        own == {Commit(p, p) : p \in {q \in People : q.login # Missing
                                                      /\ q.email = mail}}
    IN  good
        \cup {Defect(c, "author_email", v) : c \in own, v \in {None, Missing}}
        \cup {Defect(c, "author_name", None) : c \in own}
        \cup {Defect(c, "committer_email", None) : c \in own}
        \cup {Defect(c, "committer_name", None) : c \in own}
        \cup {Defect(c, "html_url", Missing) : c \in own}

\* the owner's commit of his own work
PlainCommits ==
    {Commit(p, p) : p \in {q \in People : q.login = Bob}}

\* a Role column computed without lower()
RoleCaseSensitive(name, owner) == IF name = owner THEN "Owner" ELSE "Contributor"

\* the Role column
Role(name, owner) == IF lower(name) = lower(owner) THEN "Owner" ELSE "Contributor"

\* a test for the email being "noreply" itself
NotNoreplyExact(email) == email # noreply

\* 'noreply' not in email
NotNoreply(email) == ~Contains(noreply, email)

\* a walker that forgets to look in repo_emails
SeenNever(pair, emails) == FALSE

\* pair in repo_emails
Seen(pair, emails) == pair \in emails

\* a writerow that puts the display name in the GH Username column and the
\* username in the Name column
RowColumnsSwapped(r, name, display, role, type, email, commit_url, commit_api) ==
    [repo |-> r.name, repo_url |-> r.url, owner |-> r.owner, username |-> display,
     name |-> name, role |-> role, type |-> type, email |-> email,
     commit_url |-> commit_url, commit_api |-> commit_api]

\* one csv_writer.writerow of the walker: the values it is given
Row(r, name, display, role, type, email, commit_url, commit_api) ==
    [repo |-> r.name, repo_url |-> r.url, owner |-> r.owner, username |-> name,
     name |-> display, role |-> role, type |-> type, email |-> email,
     commit_url |-> commit_url, commit_api |-> commit_api]

\* the header row
Header ==
    [repo |-> "Repo Name", repo_url |-> <<"Repo URL">>, owner |-> <<"Repo Owner">>,
     username |-> <<"GH Username">>, name |-> <<"Name">>, role |-> "Role",
     type |-> "Type", email |-> <<"Email">>, commit_url |-> <<"Commit URL">>,
     commit_api |-> [kind |-> "Commit API URL", owner |-> <<>>, repo |-> "",
                     page |-> 0]]

\* a walker that keeps a login it already has out of commit_usernames
AppendedOnce(names, login) ==
    IF login \in Range(names) THEN names ELSE Append(names, login)

\* commit_usernames.append(author_gh_username)
Appended(names, login) == Append(names, login)

\* the body of the for loop over commits, try and except included, for commit c
\* at position at of the page fetched from api: what it leaves in repo_emails,
\* commit_usernames and unique_combos, the rows it writes, and whether the
\* except clause printed an error
CommitStep(c, r, api, at, emails, names, combos) ==
    LET raised1 == c.author_email = Missing \/ c.author_name = Missing
        author_gh_username == IF c.login = Missing THEN NotFound ELSE c.login
        names1 == IF c.login = Missing THEN names ELSE Appended(names, c.login)
        raised2 == \/ c.committer_email = Missing
                   \/ c.committer_name = Missing
                   \/ c.html_url = Missing
        email_author_pair == <<author_gh_username, c.author_email, c.author_name>>
        email_committer_pair == <<c.committer_name, c.committer_email, c.committer_name>>
        raised3 == c.author_email = None
        author_new == NotNoreply(c.author_email) /\ ~Seen(email_author_pair, emails)
        emails1 == IF author_new THEN emails \cup {email_author_pair} ELSE emails
        rows1 == IF author_new
                 THEN <<Row(r, author_gh_username, c.author_name,
                            Role(author_gh_username, r.owner), "Commit Author",
                            c.author_email, at, api)>>
                 ELSE <<>>
        combos1 == IF author_new THEN combos \cup {email_author_pair} ELSE combos
        raised4 == c.committer_email = None
        committer_new == NotNoreply(c.committer_email)
                            /\ ~Seen(email_committer_pair, emails1)
        emails2 == IF committer_new THEN emails1 \cup {email_committer_pair}
                   ELSE emails1
        raised5 == committer_new /\ c.committer_name = None
        rows2 == IF committer_new
                 THEN rows1 \o <<Row(r, c.committer_name, c.committer_name,
                                     Role(c.committer_name, r.owner),
                                     "Commit Committer", c.committer_email, at, api)>>
                 ELSE rows1
        combos2 == IF committer_new THEN combos1 \cup {email_committer_pair}
                   ELSE combos1
        out(e, n, rw, cb, err) ==
            [repo_emails |-> e, commit_usernames |-> n, rows |-> rw,
             unique_combos |-> cb, raised |-> err]
    IN  IF raised1 THEN out(emails, names, <<>>, combos, TRUE)
        ELSE IF raised2 \/ raised3 THEN out(emails, names1, <<>>, combos, TRUE)
        ELSE IF raised4 THEN out(emails1, names1, rows1, combos1, TRUE)
        ELSE IF raised5 THEN out(emails2, names1, rows1, combos1, TRUE)
        ELSE out(emails2, names1, rows2, combos2, FALSE)

\* the first url of a walk
CommitsUrl(r) == [kind |-> "commits", owner |-> r.owner, repo |-> r.name, page |-> 1]

\* commits = response.json()
WalkPage ==
    /\ pc = "walk_page"
    /\ commits' = response.json
    /\ commit_k' = 1
    /\ pc' = "walk_commit"
    /\ UNCHANGED <<args, env, pass, error, fetchVars, listVars, mainVars, repo, repo_emails,
                   commit_usernames, walk_ret, walk_start, errors, walk_log, recVars,
                   outVars>>

\* one iteration of the for loop over commits
ProcessCommit ==
    /\ pc = "walk_commit"
    /\ commit_k <= Len(commits)
    /\ \E c \in (IF env.rich THEN Commits ELSE PlainCommits) :
          LET o == CommitStep(c, repo, url, <<url.page, commits[commit_k]>>,
                              repo_emails, commit_usernames, unique_combos)
          IN  /\ repo_emails' = o.repo_emails
              /\ commit_usernames' = o.commit_usernames
              /\ csv' = csv \o o.rows
              /\ unique_combos' = o.unique_combos
              /\ errors' = IF o.raised THEN errors + 1 ELSE errors
              /\ walk_log' =
                    IF c.login = Missing THEN walk_log
                    ELSE Append(walk_log,
                            [login |-> c.login,
                             fields |-> c.author_email # Missing
                                           /\ c.author_name # Missing])
    /\ commit_k' = commit_k + 1
    /\ UNCHANGED <<args, env, pass, pc, error, fetchVars, listVars, mainVars, repo, commits,
                   walk_ret, walk_start, recVars, unique_file>>

\* after the for loop: the "next" link, or return commit_usernames
WalkNext ==
    /\ pc = "walk_commit"
    /\ commit_k > Len(commits)
    /\ IF HasNext(response)
       THEN url' = NextUrl(url) /\ pc' = "get" /\ level' = level
       ELSE /\ url' = url
            /\ pc' = "walk_done"
            /\ level' = IF walk_ret = "rec"
                         THEN [level EXCEPT
                                 !.walks = Append(@, repo),
                                 !.returned = @ \cup Range(commit_usernames)]
                         ELSE level
    /\ UNCHANGED <<args, env, pass, error, token_gen, calls, token, response, fetch_ret, requests,
                   sleeps, served, ncommits, listVars, mainVars, walkVars, usernames,
                   new_usernames, current_depth, rec_repositories, rec_j, outVars>>

(* ------------------------ calls of the two above ---------------------- *)

\* a for loop that takes the repositories of a listing last first
RepoAtFromEnd(listing, i) == listing[Len(listing) + 1 - i]

\* for repo in repositories: the repository of the i-th iteration
RepoAt(listing, i) == listing[i]

\* a call of get_repositories_for_user (kind "users") or _for_org ("orgs")
CallLister(kind, name, ret) ==
    /\ username' = name
    /\ repos' = <<>>
    /\ url' = ListUrl(kind, name)
    /\ served' = <<>>
    /\ list_ret' = ret
    /\ fetch_ret' = "list"
    /\ pc' = "get"

\* a call of get_emails_from_github_commits, the file holding rows written so far
CallWalker(r, ret, written) ==
    /\ repo' = r
    /\ url' = CommitsUrl(r)
    /\ repo_emails' = {}
    /\ commit_usernames' = <<>>
    /\ commits' = <<>>
    /\ commit_k' = 0
    /\ walk_ret' = ret
    /\ walk_start' = Len(written)
    /\ walk_log' = <<>>
    /\ fetch_ret' = "walk"
    /\ pc' = "get"

(* -------------------------------- main -------------------------------- *)

\* the token generator, unique_combos, and the listing of the account
MainStart ==
    /\ pc = "main"
    /\ token_gen' = IF args.tokens # <<>> THEN token_generator(args.tokens) ELSE NoGen
    /\ unique_combos' = {}
    /\ CallLister(IF args.mode = "user" THEN "users" ELSE "orgs", args.account, "main")
    /\ UNCHANGED <<args, env, pass, error, calls, token, response, requests, sleeps, ncommits,
                   mainVars, walkVars, recVars, csv, unique_file>>

\* --user: the listing returned; open the file and write the header
MainUserListed ==
    /\ pc = "list_done"
    /\ list_ret = "main"
    /\ args.mode = "user"
    /\ repositories' = repos
    /\ initial_usernames' = {args.account}
    /\ csv' = Append(csv, Header)
    /\ main_i' = 1
    /\ pass' = Pass(repos, requests, csv')
    /\ pc' = "main_loop"
    /\ UNCHANGED <<args, env, error, fetchVars, listVars, org_users, walkVars, recVars,
                   unique_combos, unique_file>>

\* --org: the listing returned; open the file and write the header
MainOrgListed ==
    /\ pc = "list_done"
    /\ list_ret = "main"
    /\ args.mode = "org"
    /\ repositories' = repos
    /\ org_users' = {}
    /\ csv' = Append(csv, Header)
    /\ main_i' = 1
    /\ pass' = Pass(repos, requests, csv')
    /\ pc' = "org_loop"
    /\ UNCHANGED <<args, env, error, fetchVars, listVars, initial_usernames, walkVars,
                   recVars, unique_combos, unique_file>>

\* --org: the for loop over repositories; after it initial_usernames, and the
\* file is opened and the header written as for --user
OrgLoop ==
    /\ pc = "org_loop"
    /\ IF main_i <= Len(repositories)
       THEN /\ CallWalker(RepoAt(repositories, main_i), "org", csv)
            /\ UNCHANGED <<initial_usernames, main_i, csv, pass>>
       ELSE /\ initial_usernames' = org_users
            /\ csv' = Append(csv, Header)
            /\ main_i' = 1
            /\ pass' = Pass(repositories, requests, csv')
            /\ pc' = "main_loop"
            /\ UNCHANGED <<url, fetch_ret, repo, repo_emails, commit_usernames,
                           commits, commit_k, walk_ret, walk_start, walk_log>>
    /\ UNCHANGED <<args, env, error, token_gen, calls, token, response, requests, sleeps,
                   served, ncommits, listVars, repositories, org_users, errors, recVars,
                   unique_combos, unique_file>>

\* --org: org_users.update(commit_usernames)
OrgWalked ==
    /\ pc = "walk_done"
    /\ walk_ret = "org"
    /\ org_users' = org_users \cup Range(commit_usernames)
    /\ main_i' = main_i + 1
    /\ pc' = "org_loop"
    /\ UNCHANGED <<args, env, pass, error, fetchVars, listVars, repositories, initial_usernames,
                   walkVars, recVars, outVars>>

\* a test that lets depth 0 through
RecurseFromZero(depth) == depth >= 0

\* if args.depth > 0
Recurse(depth) == depth > 0

\* the for loop over repositories; after it, recursive_search if depth > 0
MainLoop ==
    /\ pc = "main_loop"
    /\ IF main_i <= Len(repositories)
       THEN /\ CallWalker(RepoAt(repositories, main_i), "main", csv)
            /\ UNCHANGED <<usernames, current_depth>>
       ELSE /\ IF Recurse(args.depth)
               THEN /\ usernames' = initial_usernames
                    /\ current_depth' = 0
                    /\ pc' = "rec"
               ELSE /\ pc' = "write_unique"
                    /\ UNCHANGED <<usernames, current_depth>>
            /\ UNCHANGED <<url, fetch_ret, repo, repo_emails, commit_usernames,
                           commits, commit_k, walk_ret, walk_start, walk_log>>
    /\ UNCHANGED <<args, env, pass, error, token_gen, calls, token, response, requests, sleeps,
                   served, ncommits, listVars, mainVars, errors, new_usernames,
                   rec_repositories, rec_j, level, outVars>>

\* commit_usernames.extend(...): the list is only printed
MainWalked ==
    /\ pc = "walk_done"
    /\ walk_ret = "main"
    /\ main_i' = main_i + 1
    /\ pc' = "main_loop"
    /\ UNCHANGED <<args, env, pass, error, fetchVars, listVars, repositories, initial_usernames,
                   org_users, walkVars, recVars, outVars>>

\* the unique-combos file
WriteUnique ==
    /\ pc = "write_unique"
    /\ unique_file' = unique_combos
    /\ pc' = "done"
    /\ UNCHANGED <<args, env, pass, error, fetchVars, listVars, mainVars, walkVars, recVars, csv,
                   unique_combos>>

(* -------------------------- recursive_search -------------------------- *)

\* a depth test that lets one level more through
PastDepthOffByOne(current, depth) == current > depth + 1

\* if current_depth > depth
PastDepth(current, depth) == current > depth

\* the depth test; the innermost return unwinds every level, each call being
\* the last statement of its caller
RecEnter ==
    /\ pc = "rec"
    /\ IF PastDepth(current_depth, args.depth)
       THEN /\ pc' = "write_unique"
            /\ UNCHANGED <<new_usernames, level>>
       ELSE /\ new_usernames' = {}
            /\ level' = Level(current_depth, usernames)
            /\ pc' = "rec_users"
    /\ UNCHANGED <<args, env, pass, error, fetchVars, listVars, mainVars, walkVars, usernames,
                   current_depth, rec_repositories, rec_j, outVars>>

\* the for loop over usernames, in the order the set or list gives; after it
\* the call one level down
RecUsers ==
    /\ pc = "rec_users"
    /\ IF usernames # {}
       THEN /\ \E u \in usernames :
                  /\ usernames' = usernames \ {u}
                  /\ level' = [level EXCEPT !.called = Append(@, u)]
                  /\ CallLister("users", u, "rec")
            /\ pass' = NoPass
            /\ UNCHANGED current_depth
       ELSE /\ usernames' = new_usernames
            /\ current_depth' = current_depth + 1
            /\ pc' = "rec"
            /\ UNCHANGED <<url, served, fetch_ret, listVars, level, pass>>
    /\ UNCHANGED <<args, env, error, token_gen, calls, token, response, requests, sleeps,
                   ncommits, mainVars, walkVars, new_usernames, rec_repositories, rec_j,
                   outVars>>

\* repositories = get_repositories_for_user(...)
RecListed ==
    /\ pc = "list_done"
    /\ list_ret = "rec"
    /\ rec_repositories' = repos
    /\ rec_j' = 1
    /\ pass' = Pass(repos, requests, csv)
    /\ level' = [level EXCEPT !.repos = @ \o repos]
    /\ pc' = "rec_repos"
    /\ UNCHANGED <<args, env, error, fetchVars, listVars, mainVars, walkVars, usernames,
                   new_usernames, current_depth, outVars>>

\* the for loop over the repositories of one username
RecRepos ==
    /\ pc = "rec_repos"
    /\ IF rec_j <= Len(rec_repositories)
       THEN CallWalker(RepoAt(rec_repositories, rec_j), "rec", csv)
       ELSE /\ pc' = "rec_users"
            /\ UNCHANGED <<url, fetch_ret, repo, repo_emails, commit_usernames,
                           commits, commit_k, walk_ret, walk_start, walk_log>>
    /\ UNCHANGED <<args, env, pass, error, token_gen, calls, token, response, requests, sleeps,
                   served, ncommits, listVars, mainVars, errors, recVars, outVars>>

\* new_usernames.update(commit_usernames)
RecWalked ==
    /\ pc = "walk_done"
    /\ walk_ret = "rec"
    /\ new_usernames' = new_usernames \cup Range(commit_usernames)
    /\ rec_j' = rec_j + 1
    /\ pc' = "rec_repos"
    /\ UNCHANGED <<args, env, pass, error, fetchVars, listVars, mainVars, walkVars, usernames,
                   current_depth, rec_repositories, level, outVars>>

(* ---------------------------- specification --------------------------- *)

Next ==
    \/ MainStart
    \/ Request
    \/ Return200
    \/ RateLimitRetry
    \/ RateLimitKeyError
    \/ RaiseForStatus
    \/ ListPage
    \/ MainUserListed
    \/ MainOrgListed
    \/ OrgLoop
    \/ OrgWalked
    \/ MainLoop
    \/ MainWalked
    \/ WalkPage
    \/ ProcessCommit
    \/ WalkNext
    \/ RecEnter
    \/ RecUsers
    \/ RecListed
    \/ RecRepos
    \/ RecWalked
    \/ WriteUnique

Spec == Init /\ [][Next]_vars

(* ------------------------------- claims ------------------------------- *)

\* the places of the data rows in the csv file
DataRows == {q \in 1..Len(csv) : csv[q] # Header}

\* the identity tuple of a row: (login, email, name)
Tuple(row) == <<row.username, row.email, row.name>>

\* a rate-limit signal as the specification words it: 403 with no quota left
ZeroRemaining403(r) == r.status = 403 /\ r.remaining = "0"

\* C1: every answer that is neither 200 nor a 403 with no quota left ends the
\* fetch, and the run, with an HTTP error; no request follows it.
C1_OtherStatusIsFatal ==
    [][(pc = "got" /\ response.status # 200 /\ ~ZeroRemaining403(response))
          => (pc' = "crashed" /\ error' = "HTTPError" /\ requests' = requests)]_vars

\* C2, as claimed: every 403 with no quota left is followed by another request
\* for the same url, never by a failure or a return, and a 200 is returned at
\* once.
C2_EveryZeroRemaining403IsRetried ==
    [][/\ (pc = "got" /\ ZeroRemaining403(response))
            => (pc' = "get" /\ error' = "none" /\ url' = url)
       /\ (pc = "got" /\ response.status = 200)
            => (pc' \in {"list_page", "walk_page"} /\ response' = response)]_vars

\* C2, amended: every 403 that carries X-RateLimit-Reset and has
\* X-RateLimit-Remaining "0" is followed by a sleep and another request for the
\* same url, with tokens or without, never by a failure or a return, and a 200
\* is returned at once.
C2_RateLimitIsRetried ==
    [][/\ (pc = "got" /\ ZeroRemaining403(response) /\ response.reset)
            => /\ pc' = "get" /\ error' = "none" /\ url' = url
               /\ Len(sleeps') = Len(sleeps) + 1
       /\ (pc = "got" /\ response.status = 200)
            => (pc' \in {"list_page", "walk_page"} /\ response' = response)]_vars

\* C2: without tokens, two rate-limit answers in a row were each retried and the
\* 200 that followed is being returned
C2_Witness ==
    /\ pc = "got"
    /\ response.status = 200
    /\ token_gen = NoGen
    /\ Len(requests) >= 3
    /\ requests[Len(requests) - 1].status = 403
    /\ requests[Len(requests) - 2].status = 403
    /\ Len(sleeps) = 2

\* C3: among the rows written by the walk that is running, no two carry the same
\* identity tuple, and the tuple of each is in repo_emails, which keeps a later
\* commit with that tuple from producing a row.
C3_OneRowPerTuple ==
    \A p, q \in DataRows :
        (p > walk_start /\ q > walk_start)
            => /\ Tuple(csv[p]) \in repo_emails
               /\ (Tuple(csv[p]) = Tuple(csv[q]) => p = q)

\* C3: two commits by the same login were processed without an error, and the
\* walk wrote one row
C3_Witness ==
    /\ pc = "walk_commit"
    /\ commit_k = 3
    /\ errors = 0
    /\ commit_usernames = <<Bob, Bob>>
    /\ Len(csv) = walk_start + 1

\* C4: no data row of the csv file and no entry of unique_combos has an email
\* containing "noreply".
C4_NoNoreplyWritten ==
    /\ \A q \in DataRows : ~Contains(noreply, csv[q].email)
    /\ \A t \in unique_combos : ~Contains(noreply, t[2])

\* C4: the first commit of a walk, by an author and a committer who hide their
\* emails, was processed without an error and left no row
C4_Witness ==
    /\ pc = "walk_commit"
    /\ url.page = 1
    /\ commit_k = 2
    /\ errors = 0
    /\ commit_usernames = <<eve>>
    /\ Len(csv) = walk_start
    /\ unique_combos = {}

\* C5, as claimed: the Role of a data row is "Owner" exactly when its login or
\* its display name equals the repository's owner, case ignored, and
\* "Contributor" otherwise.
C5_OwnerIffLoginOrName ==
    \A q \in DataRows :
        /\ csv[q].role \in {"Owner", "Contributor"}
        /\ csv[q].role = "Owner"
              <=> \/ lower(csv[q].username) = lower(csv[q].owner)
                  \/ lower(csv[q].name) = lower(csv[q].owner)

\* C5, amended: the Role of a data row is "Owner" exactly when its GH Username
\* column (the author's login or "Not Found" on an author row, the committer's
\* display name on a committer row) equals the repository's owner, case ignored,
\* and "Contributor" otherwise; an author's display name is not compared.
C5_OwnerIffUsernameColumn ==
    \A q \in DataRows :
        /\ csv[q].role \in {"Owner", "Contributor"}
        /\ csv[q].role = "Owner"
              <=> lower(csv[q].username) = lower(csv[q].owner)

\* C5: an author row whose display name is the owner's and whose login is not,
\* and a row whose username differs from the owner in case only
C5_Witness ==
    /\ \E q \in DataRows :
          /\ csv[q].type = "Commit Author"
          /\ lower(csv[q].name) = lower(csv[q].owner)
          /\ lower(csv[q].username) # lower(csv[q].owner)
          /\ csv[q].role = "Contributor"
    /\ \E q \in DataRows :
          /\ csv[q].username # csv[q].owner
          /\ csv[q].role = "Owner"

\* the items of the pages served to the running lister, in the order served
RECURSIVE ServedItems(_)
ServedItems(pages) ==
    IF pages = <<>> THEN <<>>
    ELSE ServedItems(SubSeq(pages, 1, Len(pages) - 1)) \o pages[Len(pages)].json

\* C6: when a lister returns, the pages it was served are pages 1..P of the
\* listing, each served once, every one but the last with a "next" link; its
\* result has one record per item served, in the order served, with the item's
\* name and url and the queried account as owner; the first lister of a run has
\* made exactly P successful fetches.
C6_ListerReturnsEveryItem ==
    pc = "list_done" =>
        /\ \A p \in 1..Len(served) :
              served[p].page = p /\ (served[p].next <=> p < Len(served))
        /\ Len(repos) = Len(ServedItems(served))
        /\ \A q \in 1..Len(repos) :
              /\ repos[q].name = ServedItems(served)[q].name
              /\ repos[q].url = ServedItems(served)[q].html_url
              /\ repos[q].owner = url.owner
        /\ list_ret = "main" =>
              Cardinality({q \in 1..Len(requests) : requests[q].status = 200})
                  = Len(served)

\* C6: a lister returns after two pages of one item each
C6_Witness ==
    /\ pc = "list_done"
    /\ Len(served) = 2
    /\ Len(served[1].json) = 1
    /\ Len(served[2].json) = 1
    /\ Len(repos) = 2

\* C7: the k-th call of next(token_gen) returns the token at index (k-1) mod n
\* of the list, counting from 0, and the generator is always ready to yield
\* another.
C7_TokensCycleInOrder ==
    token_gen # NoGen =>
        LET n == Len(args.tokens)
        IN  /\ n > 0
            /\ token_gen.pos \in 1..n
            /\ calls >= 1 => token = args.tokens[((calls - 1) % n) + 1]

\* C7: the 4th call over a list of 3 tokens has returned the first token
C7_Witness ==
    /\ Len(args.tokens) = 3
    /\ calls = 4
    /\ token = args.tokens[1]

\* C8: a step that prints "Error processing commit" writes no row and adds
\* nothing to unique_combos, and the walk goes on to the next commit.
C8_FailedCommitLeavesNothing ==
    [][errors' = errors + 1
          => /\ csv' = csv
             /\ unique_combos' = unique_combos
             /\ pc' = "walk_commit"
             /\ commit_k' = commit_k + 1]_vars

\* C9: with --depth 0 recursive_search never runs: every repository listing
\* requested is the initial account's, by the endpoint of its mode, and every
\* commit listing requested is of a repository of the initial account's listing.
C9_DepthZeroFetchesInitialOnly ==
    args.depth = 0 =>
        /\ pc \notin {"rec", "rec_users", "rec_repos"}
        /\ list_ret # "rec"
        /\ walk_ret # "rec"
        /\ \A q \in 1..Len(requests) :
              LET u == requests[q].url
              IN  /\ u.owner = args.account
                  /\ u.kind \in {IF args.mode = "user" THEN "users" ELSE "orgs",
                                 "commits"}
                  /\ u.kind = "commits" =>
                        \E r \in 1..Len(repositories) :
                            repositories[r].name = u.repo

\* C9: an --org run of depth 0 has ended, having found commit authors whose
\* repositories it did not fetch
C9_Witness ==
    /\ args.depth = 0
    /\ args.mode = "org"
    /\ pc = "done"
    /\ initial_usernames # {}

\* C10: in a --user run, where only recursive_search visits anything twice, no
\* two data rows of the csv file have the same repository and the same identity
\* tuple.
C10_RevisitWritesNoDuplicateRow ==
    args.mode = "user" =>
        \A p, q \in DataRows :
            (/\ csv[p].repo = csv[q].repo
             /\ csv[p].owner = csv[q].owner
             /\ Tuple(csv[p]) = Tuple(csv[q])) => p = q

\* C11, as claimed: with tokens, the sleep after a rate-limit 403 lasts the
\* value of the response's Retry-After header when it has one, and 60 seconds
\* otherwise.
C11_WaitIsRetryAfterOrSixty ==
    [][(pc = "got" /\ IsRateLimited(response) /\ token_gen # NoGen)
          => /\ Len(sleeps') = Len(sleeps) + 1
             /\ sleeps'[Len(sleeps')]
                   = IF response.retry_after # Absent
                     THEN Seconds(response.retry_after) ELSE 60]_vars

\* C11, amended: with tokens, the sleep after a rate-limit 403 lasts 60 seconds
\* whether the response has a Retry-After header or not, and the same request
\* is sent next.
C11_WaitIsSixty ==
    [][(pc = "got" /\ IsRateLimited(response) /\ token_gen # NoGen)
          => /\ Len(sleeps') = Len(sleeps) + 1
             /\ sleeps'[Len(sleeps')] = 60
             /\ pc' = "get"
             /\ url' = url]_vars

\* C11: with tokens, a rate-limit 403 carrying Retry-After: 30 has been slept on
\* for 60 seconds, after an earlier rate-limit 403
C11_Witness ==
    /\ pc = "get"
    /\ token_gen # NoGen
    /\ IsRateLimited(response)
    /\ response.retry_after = "30"
    /\ sleeps = <<60, 60>>

\* recursive_search, or a lister or walker it called, is running
RecRunning ==
    \/ pc \in {"rec_users", "rec_repos"}
    \/ pc \in {"list_page", "list_done"} /\ list_ret = "rec"
    \/ pc \in {"walk_page", "walk_commit", "walk_done"} /\ walk_ret = "rec"
    \/ /\ pc \in {"get", "got"}
       /\ \/ fetch_ret = "list" /\ list_ret = "rec"
          \/ fetch_ret = "walk" /\ walk_ret = "rec"

TuplesFrom(rows, p) == {Tuple(rows[q]) : q \in {x \in p..Len(rows) : rows[x] # Header}}

\* C13: unique_combos is at every point the set of the identity tuples of the
\* data rows written so far; a step adds to it exactly the tuples of the rows
\* that step appends, and removes nothing; when the run has ended the
\* unique-combos file holds those tuples, each once.
C13_UniqueCombosAreTheRowTuples ==
    /\ [](unique_combos = TuplesFrom(csv, 1))
    /\ [](pc = "done" => unique_file = TuplesFrom(csv, 1))
    /\ [][/\ SubSeq(csv', 1, Len(csv)) = csv
          /\ unique_combos' = unique_combos \cup TuplesFrom(csv', Len(csv) + 1)]_vars

\* C13: a run has ended whose csv file has an author row and a committer row
\* with different tuples, and the unique-combos file holds both
C13_Witness ==
    /\ pc = "done"
    /\ \E p, q \in DataRows :
          /\ csv[p].type = "Commit Author"
          /\ csv[q].type = "Commit Committer"
          /\ Tuple(csv[p]) # Tuple(csv[q])
    /\ Cardinality(unique_file) = 2

\* the author logins of the commits of a walk, in commit order, one for each
\* commit that has one and, if asked, carries its author's email and name
RECURSIVE Logins(_, _)
Logins(log, with_fields) ==
    IF log = <<>> THEN <<>>
    ELSE LET last == log[Len(log)]
             rest == Logins(SubSeq(log, 1, Len(log) - 1), with_fields)
         IN  IF with_fields => last.fields
             THEN Append(rest, last.login)
             ELSE rest

\* C14, as claimed: the list a walk returns has no login twice, and a login is
\* in it exactly when some commit of the walk has it as its author login.
C14_ReturnsDistinctLogins ==
    pc = "walk_done" =>
        /\ Distinct(commit_usernames)
        /\ Range(commit_usernames) = Range(Logins(walk_log, FALSE))

\* C14, amended: the list a walk returns, and holds at any point of the walk, has
\* one entry per commit that has an author login and carries its author's email
\* and name, in commit order; a login is in it once for each such commit.
C14_ReturnsLoginPerCommit ==
    pc \in {"walk_commit", "walk_done"} =>
        commit_usernames = Logins(walk_log, TRUE)

\* C14: a walk returns after two commits by the same login, and the list holds
\* the login twice
C14_Witness ==
    /\ pc = "walk_done"
    /\ Len(walk_log) = 2
    /\ walk_log[1].login = walk_log[2].login
    /\ commit_usernames = <<Bob, Bob>>

\* the place in the running loop's listing of the repository named
Place(name) == CHOOSE i \in 1..Len(pass.repos) : pass.repos[i].name = name

\* the requests and the data rows of the running loop
PassRequests == (pass.req0 + 1)..Len(requests)
PassRows == {q \in (pass.row0 + 1)..Len(csv) : csv[q] # Header}

\* <<repository, page, commit>> a comes before b, or is b
Before(a, b) ==
    \/ a[1] < b[1]
    \/ a[1] = b[1] /\ a[2] < b[2]
    \/ a[1] = b[1] /\ a[2] = b[2] /\ a[3] <= b[3]

\* where a request and a row stand in the running loop
RequestKey(q) == <<Place(requests[q].url.repo), requests[q].url.page, 0>>
RowKey(q) == <<Place(csv[q].repo), csv[q].commit_api.page, csv[q].commit_url[2]>>

C16_OneTokenPerRequest ==
    LET n == Len(args.tokens)
    IN  /\ \A q \in 1..Len(requests) :
              requests[q].authorization
                  = IF n = 0 THEN "none" ELSE args.tokens[((q - 1) % n) + 1]
        /\ n > 0 => calls = Len(requests)
        /\ n = 0 => token_gen = NoGen /\ calls = 0
        /\ (n > 0 /\ pc # "main") => token_gen # NoGen

\* C16: with two tokens, the second request was rate-limited and retried with
\* the first token again, and the commit listing asked for next carried the
\* second
C16_Witness ==
    /\ Len(args.tokens) = 2
    /\ Len(requests) = 4
    /\ requests[2].status = 403
    /\ requests[3].url = requests[2].url
    /\ requests[2].authorization = "t2"
    /\ requests[3].authorization = "t1"
    /\ requests[3].status = 200
    /\ requests[4].url.kind = "commits"
    /\ requests[4].authorization = "t2"

\* the header rows of the csv file, and the walks of repository r that the run
\* began successfully: the answers 200 to the first page of its commit listing
HeaderRows == {q \in 1..Len(csv) : csv[q] = Header}
WalksOf(r) ==
    {q \in 1..Len(requests) :
        requests[q].url = CommitsUrl(r) /\ requests[q].status = 200}

\* C17: when a run of depth 0 has ended, in either mode, the csv file has got
\* one header row and each repository of the initial account's listing has had
\* its commit listing walked once.
C17_DepthZeroWalksOnceOneHeader ==
    (args.depth = 0 /\ pc = "done") =>
        /\ Cardinality(HeaderRows) = 1
        /\ \A i \in 1..Len(repositories) :
              Cardinality(WalksOf(repositories[i])) = 1

\* an answer that is an HTTP error and no rate-limit signal
ErrorAnswer(r) == r.status >= 400 /\ r.status # 403

\* C18: an answer that is an HTTP error ends the run there with HTTPError: no
\* row is lost or added, and the unique-combos file is not written, then or
\* later, since no step follows the failure.
C18_FatalErrorKeepsRowsOnly ==
    /\ [](pc = "crashed" => unique_file = NotWritten)
    /\ [](error = "HTTPError" => pc = "crashed")
    /\ [][pc # "crashed"]_vars
    /\ [][(pc = "got" /\ ErrorAnswer(response))
            => /\ pc' = "crashed"
               /\ error' = "HTTPError"
               /\ csv' = csv
               /\ unique_combos' = unique_combos
               /\ unique_file' = NotWritten]_vars

\* C18: a run has failed with HTTPError on the second page of a commit listing,
\* after writing a row for a commit of the first; the row is in the csv file,
\* its tuple in unique_combos, and the unique-combos file is not written
C18_Witness ==
    /\ pc = "crashed"
    /\ error = "HTTPError"
    /\ url.kind = "commits"
    /\ url.page = 2
    /\ DataRows # {}
    /\ unique_combos # {}
    /\ unique_file = NotWritten

=============================================================================
